---- MODULE Spec2Model ----
(***************************************************************************)
(* Model of company_analyser.py: the CompanyAnalyzer batch driver          *)
(* (process_companies), the query issuer with its tolerant JSON extraction *)
(* (call_pplx_api) and the row sink (update_sheet_with_response).          *)
(*                                                                         *)
(* Texts are sequences of one-character strings, so that str.replace,      *)
(* str.split, str.rindex and json.loads are modelled by what they do to    *)
(* the characters.  The texts hold no digits outside strings, no brackets  *)
(* and no backslashes, so the JSON values met are objects, strings and the *)
(* literals true, false and null.                                          *)
(*                                                                         *)
(* Spec and FairSpec are process_companies over a range of rows, with the  *)
(* completion endpoint and the sheet as the environment; SpecExtract is    *)
(* the extraction of lines 102-120 alone, step by step, over enumerated    *)
(* response texts.                                                         *)
(***************************************************************************)
EXTENDS Integers, Sequences, FiniteSets, TLC

\* ------------------------------------------------------------------ bounds

\* Longest text of the exhaustively enumerated short response texts.
MaxTextLen == 3
\* Largest number of keys of an enumerated CompanyProfile.
MaxKeys == 2
\* Largest number of rows of a requested range (end_row - start_row + 1).
MaxRows == 2

\* ------------------------------------------------------- character helpers

Min(S) == CHOOSE x \in S : \A y \in S : x <= y
Max(S) == CHOOSE x \in S : \A y \in S : x >= y

\* Every index at which pat occurs in s.
Occurrences(s, pat) ==
    { i \in 1..(Len(s) - Len(pat) + 1) : SubSeq(s, i, i + Len(pat) - 1) = pat }

\* str.find, 1-based; 0 when pat does not occur.
Find(s, pat) ==
    IF Occurrences(s, pat) = {} THEN 0 ELSE Min(Occurrences(s, pat))

\* str.rindex, 1-based; only used where pat occurs.
RIndex(s, pat) == Max(Occurrences(s, pat))

\* pat in s
Contains(s, pat) == Occurrences(s, pat) # {}

\* s.replace(pat, ''): the non-overlapping occurrences, left to right.
RECURSIVE RemoveAll(_, _)
RemoveAll(s, pat) ==
    LET i == Find(s, pat)
    IN  IF i = 0
        THEN s
        ELSE SubSeq(s, 1, i - 1) \o RemoveAll(SubSeq(s, i + Len(pat), Len(s)), pat)

\* ------------------------------------------------------------- json.loads

\* Decoded JSON values: a string, an object (a mapping from key texts to
\* values) or one of the literals.  Numbers and arrays are outside the
\* alphabet of the modelled texts, as are backslash escapes.
StrVal(s) == [t |-> "str", v |-> s]
ObjVal(d) == [t |-> "obj", v |-> d]
LitVal(n) == [t |-> "lit", v |-> n]

EmptyDict == [k \in {} |-> StrVal(<< >>)]

\* d[key] = val, a later duplicate key replacing an earlier one.
Put(d, key, val) ==
    [k \in (DOMAIN d) \cup {key} |-> IF k = key THEN val ELSE d[k]]

Whitespace == {" ", "\n", "\t", "\r"}
ControlChars == {"\n", "\t", "\r"}

ParseFail == [ok |-> FALSE, val |-> LitVal("null"), next |-> 0]
ParseOk(v, n) == [ok |-> TRUE, val |-> v, next |-> n]

RECURSIVE SkipWs(_, _)
SkipWs(s, i) ==
    IF i <= Len(s) /\ s[i] \in Whitespace THEN SkipWs(s, i + 1) ELSE i

\* A string starting with the quote at s[i]: up to the next quote; strict
\* mode rejects control characters inside it.
ParseString(s, i) ==
    LET closers == { j \in (i + 1)..Len(s) : s[j] = "\"" }
    IN  IF closers = {}
        THEN ParseFail
        ELSE LET j == Min(closers)
                 body == SubSeq(s, i + 1, j - 1)
             IN  IF \E k \in 1..Len(body) : body[k] \in ControlChars \cup {"\\"}
                 THEN ParseFail
                 ELSE ParseOk(StrVal(body), j + 1)

Literals ==
    { << "t", "r", "u", "e" >>, << "f", "a", "l", "s", "e" >>, << "n", "u", "l", "l" >> }

LitName(w) ==
    IF w = << "t", "r", "u", "e" >> THEN "true"
    ELSE IF w = << "f", "a", "l", "s", "e" >> THEN "false"
    ELSE "null"

\* The literal w is at s[i..].
LiteralAt(s, i, w) == i + Len(w) - 1 <= Len(s) /\ SubSeq(s, i, i + Len(w) - 1) = w

RECURSIVE ParseValue(_, _), ParseMembers(_, _, _)

\* JSONObject: s[i] is the opening brace.
ParseObject(s, i) ==
    LET j == SkipWs(s, i + 1)
    IN  IF j > Len(s) THEN ParseFail
        ELSE IF s[j] = "}" THEN ParseOk(ObjVal(EmptyDict), j + 1)
        ELSE IF s[j] # "\"" THEN ParseFail
        ELSE ParseMembers(s, j, EmptyDict)

\* The members of an object from the key whose quote is s[j].
ParseMembers(s, j, acc) ==
    LET key == ParseString(s, j)
        c == SkipWs(s, key.next)
        val == ParseValue(s, SkipWs(s, c + 1))
        e == SkipWs(s, val.next)
        acc2 == Put(acc, key.val.v, val.val)
        n == SkipWs(s, e + 1)
    IN  IF ~key.ok THEN ParseFail
        ELSE IF c > Len(s) \/ s[c] # ":" THEN ParseFail
        ELSE IF ~val.ok THEN ParseFail
        ELSE IF e > Len(s) THEN ParseFail
        ELSE IF s[e] = "}" THEN ParseOk(ObjVal(acc2), e + 1)
        ELSE IF s[e] # "," THEN ParseFail
        ELSE IF n > Len(s) \/ s[n] # "\"" THEN ParseFail
        ELSE ParseMembers(s, n, acc2)

\* scan_once at position i.
ParseValue(s, i) ==
    IF i > Len(s) THEN ParseFail
    ELSE IF s[i] = "\"" THEN ParseString(s, i)
    ELSE IF s[i] = "{" THEN ParseObject(s, i)
    ELSE IF \E w \in Literals : LiteralAt(s, i, w)
    THEN LET w == CHOOSE x \in Literals : LiteralAt(s, i, x)
         IN  ParseOk(LitVal(LitName(w)), i + Len(w))
    ELSE ParseFail

\* json.loads(s): one value, then nothing but whitespace ("Extra data"
\* otherwise).  ok = FALSE stands for json.JSONDecodeError.
JsonLoads(s) ==
    LET r == ParseValue(s, SkipWs(s, 1))
    IN  IF r.ok /\ SkipWs(s, r.next) = Len(s) + 1
        THEN [ok |-> TRUE, val |-> r.val]
        ELSE [ok |-> FALSE, val |-> LitVal("null")]

\* ------------------------------------------- call_pplx_api: the extraction

\* The backquote character (a TLA+ string cannot hold it).
Backquote == "backquote"

\* The two fence markers of line 102: three backquotes followed by json, and
\* three backquotes.
FenceJson == << Backquote, Backquote, Backquote, "j", "s", "o", "n" >>
Fence == << Backquote, Backquote, Backquote >>

\* content.replace(FenceJson, '').replace(Fence, '')
StripFences(content) == RemoveAll(RemoveAll(content, FenceJson), Fence)

\* A variant: content.rsplit('{', 1)[-1], the tail after the last brace.
SplitTailAtLast(content) ==
    IF Contains(content, << "{" >>)
    THEN SubSeq(content, RIndex(content, << "{" >>) + 1, Len(content))
    ELSE content

\* content.split('{', 1)[-1]
SplitTail(content) ==
    IF Contains(content, << "{" >>)
    THEN SubSeq(content, Find(content, << "{" >>) + 1, Len(content))
    ELSE content

\* A variant: the brace is put back only where the split removed one.
KeepFromFirstBraceIfAny(content) ==
    IF Contains(content, << "{" >>) THEN << "{" >> \o SplitTail(content) ELSE content

\* content = '{' + content.split('{', 1)[-1]
KeepFromFirstBrace(content) == << "{" >> \o SplitTail(content)

\* A variant: content[:content.index('}')+1], the first closing brace.
TruncateAfterFirstBrace(content) ==
    IF Contains(content, << "}" >>)
    THEN SubSeq(content, 1, Find(content, << "}" >>))
    ELSE content

\* if '}' in content: content = content[:content.rindex('}')+1]
TruncateAfterLastBrace(content) ==
    IF Contains(content, << "}" >>)
    THEN SubSeq(content, 1, RIndex(content, << "}" >>))
    ELSE content

\* What call_pplx_api returns: None, or the decoded mapping.
None == [none |-> TRUE, val |-> EmptyDict]
Some(d) == [none |-> FALSE, val |-> d]

\* result = json.loads(content); return result / except JSONDecodeError:
\* return None.  The content starts with a brace, so a decoded value is an
\* object.
LoadsOrNone(content) ==
    LET r == JsonLoads(content)
    IN  IF r.ok /\ r.val.t = "obj" THEN Some(r.val.v) ELSE None

\* Lines 102-120 on the text field of a status-200 response.
ExtractProfile(text) ==
    LoadsOrNone(TruncateAfterLastBrace(KeepFromFirstBrace(StripFences(text))))

\* ------------------------------------------------- the recognised keys

company_overview ==
    << "c", "o", "m", "p", "a", "n", "y", "_", "o", "v", "e", "r", "v", "i", "e", "w" >>

company_type ==
    << "c", "o", "m", "p", "a", "n", "y", "_", "t", "y", "p", "e" >>

company_business ==
    << "c", "o", "m", "p", "a", "n", "y", "_", "b", "u", "s", "i", "n", "e", "s", "s" >>

company_industry ==
    << "c", "o", "m", "p", "a", "n", "y", "_", "i", "n", "d", "u", "s", "t", "r", "y" >>

sources ==
    << "s", "o", "u", "r", "c", "e", "s" >>

\* ----------------------------- the example payload of the prompt template

\* Lines 74-81 of the f-string, as rendered (the doubled braces are single).

ExampleLine74 ==
    << "{" >>

ExampleLine75 ==
    << "\"", "w", "e", "b", "s", "i", "t", "e", "\"", ":", " ", "\"", "F", "l", "e", "x", "i",
       "p", "l", "e", ".", "c", "o", "m", "\"", "," >>

ExampleLine76 ==
    << "\"", "c", "o", "m", "p", "a", "n", "y", "_", "o", "v", "e", "r", "v", "i", "e", "w", "\"",
       ":", " ", "\"", "F", "l", "e", "x", "i", "p", "l", "e", " ", "i", "s", " ", "t", "h", "e",
       " ", "s", "i", "m", "p", "l", "e", "s", "t", " ", "&", " ", "f", "a", "s", "t", "e", "s",
       "t", " ", "w", "a", "y", " ", "t", "o", " ", "b", "u", "i", "l", "d", " ", "y", "o", "u",
       "r", " ", "d", "r", "e", "a", "m", " ", "t", "e", "c", "h", " ", "t", "e", "a", "m", ".",
       " ", "S", "i", "m", "p", "l", "y", " ", "s", "h", "a", "r", "e", " ", "y", "o", "u", "r",
       " ", "t", "a", "l", "e", "n", "t", " ", "r", "e", "q", "u", "i", "r", "e", "m", "e", "n",
       "t", "s", " ", "a", "n", "d", " ", "r", "e", "c", "e", "i", "v", "e", " ", "h", "a", "n",
       "d", "p", "i", "c", "k", "e", "d", " ", "c", "a", "n", "d", "i", "d", "a", "t", "e", "s",
       " ", "i", "n", " ", "y", "o", "u", "r", " ", "i", "n", "b", "o", "x", " ", "i", "n", " ",
       "4", "8", " ", "h", "o", "u", "r", "s", ".", " ", "A", "c", "c", "e", "s", "s", " ", "p",
       "r", "e", "-", "v", "e", "t", "t", "e", "d", " ", "q", "u", "a", "l", "i", "t", "y", " ",
       "e", "n", "g", "i", "n", "e", "e", "r", "s", ":", " ", "G", "e", "t", " ", "d", "i", "r",
       "e", "c", "t", " ", "a", "c", "c", "e", "s", "s", " ", "t", "o", " ", "F", "l", "e", "x",
       "i", "p", "l", "e", "'", "s", " ", "t", "a", "l", "e", "n", "t", " ", "w", "h", "o", " ",
       "a", "r", "e", " ", "c", "a", "r", "e", "f", "u", "l", "l", "y", " ", "v", "e", "t", "t",
       "e", "d", " ", "o", "v", "e", "r", " ", "5", "0", "+", " ", "u", "n", "i", "q", "u", "e",
       " ", "d", "a", "t", "a", " ", "p", "o", "i", "n", "t", "s", " ", "p", "a", "r", "a", "m",
       "e", "t", "e", "r", "i", "z", "e", "d", " ", "b", "a", "s", "e", "d", " ", "o", "n", " ",
       "p", "a", "s", "t", " ", "w", "o", "r", "k", " ", "a", "n", "d", "c", "r", "o", "w", "d",
       "s", "o", "u", "r", "c", "e", "d", " ", "f", "r", "o", "m", " ", "t", "h", "e", "i", "r",
       " ", "p", "e", "r", "f", "o", "r", "m", "a", "n", "c", "e", " ", "o", "n", " ", "h", "i",
       "r", "i", "n", "g", " ", "p", "r", "o", "c", "e", "s", "s", "e", "s", " ", "t", "h", "r",
       "o", "u", "g", "h", " ", "F", "l", "e", "x", "i", "p", "l", "e", ".", "\"", "," >>

ExampleLine77 ==
    << "\"", "c", "o", "m", "p", "a", "n", "y", "_", "t", "y", "p", "e", "\"", ":", " ", "\"",
       "S", "e", "r", "v", "i", "c", "e", "-", "b", "a", "s", "e", "d", "\"", "," >>

ExampleLine78 ==
    << "\"", "c", "o", "m", "p", "a", "n", "y", "_", "b", "u", "s", "i", "n", "e", "s", "s", "\"",
       ":", " ", "\"", "B", "2", "B", "\"", "," >>

ExampleLine79 ==
    << "\"", "c", "o", "m", "p", "a", "n", "y", "_", "i", "n", "d", "u", "s", "t", "r", "y", "\"",
       ":", " ", "\"", "I", "T", " ", "C", "o", "n", "s", "u", "l", "t", "i", "n", "g", " ", "&",
       " ", "I", "T", " ", "s", "e", "r", "v", "i", "c", "e", "s", "\"" >>

ExampleLine80 ==
    << "\"", "s", "o", "u", "r", "c", "e", "s", "\"", ":", " ", "\"", "h", "t", "t", "p", "s",
       ":", "/", "/", "w", "w", "w", ".", "c", "r", "u", "n", "c", "h", "b", "a", "s", "e", ".",
       "c", "o", "m", "/", "o", "r", "g", "a", "n", "i", "z", "a", "t", "i", "o", "n", "/", "f",
       "l", "e", "x", "i", "p", "l", "e", "\"" >>

ExampleLine81 ==
    << "}" >>

NL == << "\n" >>

\* The example of lines 74-81 as one text.
ExamplePayload ==
    ExampleLine74 \o NL \o ExampleLine75 \o NL \o ExampleLine76 \o NL \o ExampleLine77 \o NL
        \o ExampleLine78 \o NL \o ExampleLine79 \o NL \o ExampleLine80 \o NL \o ExampleLine81

\* ------------------------------------------- update_sheet_with_response

\* response.get(key, '')
Get(d, key) == IF key \in DOMAIN d THEN d[key] ELSE StrVal(<< >>)

\* The values of lines 141-147, in the order of the columns C..G.
FiveValues(d) ==
    << Get(d, company_overview), Get(d, company_type), Get(d, company_business),
       Get(d, company_industry), Get(d, sources) >>

\* A variant: response is not None.
IsNotNone(response) == ~response.none

\* The truth value of a response (if response: / if not response:): None
\* and the empty mapping are both false.
Truthy(response) == ~response.none /\ DOMAIN response.val # {}

\* ------------------------------------------------ compact JSON encoding

RecognisedKeys ==
    << company_overview, company_type, company_business, company_industry, sources >>

Quoted(s) == << "\"" >> \o s \o << "\"" >>

\* The members "key":"value" of the keys ks of profile p, comma separated.
RECURSIVE EncodeMembers(_, _)
EncodeMembers(p, ks) ==
    IF ks = << >>
    THEN << >>
    ELSE Quoted(Head(ks)) \o << ":" >> \o Quoted(p[Head(ks)].v)
             \o (IF Len(ks) > 1 THEN << "," >> ELSE << >>)
             \o EncodeMembers(p, Tail(ks))

\* json.dumps(p, separators=(',', ':')) of a profile whose values hold
\* neither quotes nor backslashes.
Encode(p) ==
    << "{" >> \o EncodeMembers(p, SelectSeq(RecognisedKeys, LAMBDA k : k \in DOMAIN p))
        \o << "}" >>

\* ------------------------------------------------------ enumerated inputs

\* Values of an enumerated profile: empty, plain, with braces, with fence
\* markers.
ValueTexts ==
    { << >>, << "a" >>, << "}", "a" >>, << "a", "{" >>,
      << "a" >> \o Fence \o << "b" >>, FenceJson }

Profiles ==
    UNION { [D -> { StrVal(v) : v \in ValueTexts }] :
              D \in { S \in SUBSET { RecognisedKeys[n] : n \in 1..5 } :
                        Cardinality(S) <= MaxKeys } }

ShortAlphabet == { "{", "}", "\"", ":", "a", Backquote }

RECURSIVE TextsOfLen(_)
TextsOfLen(n) ==
    IF n = 0
    THEN { << >> }
    ELSE { << c >> \o t : c \in ShortAlphabet, t \in TextsOfLen(n - 1) }

ShortTexts == UNION { TextsOfLen(n) : n \in 0..MaxTextLen }

\* Noise around an encoded profile.
Prefixes == { << >>, FenceJson \o NL, << "a", ":", " " >> }
Suffixes == { << >>, << "}" >>, NL \o Fence }

\* The response texts of the extraction runs: an encoded profile inside
\* noise, an encoded profile without its opening brace, and every short
\* text.
Origins ==
    [kind : {"encoded"}, profile : Profiles, pre : Prefixes, suf : Suffixes]
        \cup [kind : {"headless"}, profile : Profiles, pre : { << >> }, suf : { << >> }]
        \cup { [kind |-> "short", profile |-> EmptyDict, pre |-> t, suf |-> << >>] :
                 t \in ShortTexts }

RawText(o) ==
    IF o.kind = "encoded" THEN o.pre \o Encode(o.profile) \o o.suf
    ELSE IF o.kind = "headless" THEN Tail(Encode(o.profile))
    ELSE o.pre

\* ------------------------------------------------------------------ state

VARIABLES
    pc,          \* where process_companies is
    start_row,   \* its arguments
    end_row,
    companies,   \* what get_company_data returned
    idx,         \* position of the for loop in companies (1-based)
    domain,      \* the local of line 178
    response,    \* the local of line 181
    sheet,       \* columns C..G of the sheet, by row
    issued,      \* the update requests sent to the sheet
    log,         \* what the run did, in order
    outcome,     \* by position: how the row's processing went
    got,         \* the calls of call_pplx_api, with what each returned
    origin,      \* an extraction run: where its text comes from
    stage,       \* an extraction run: the step reached
    content,     \* the local of lines 98-114
    result       \* what the extraction returned

driverVars ==
    << pc, start_row, end_row, companies, idx, domain, response, sheet, issued, log,
       outcome, got >>
extractVars == << origin, stage, content, result >>
vars == << driverVars, extractVars >>

\* ------------------------------------------------ the completion endpoint

FullProfile ==
    [k \in { RecognisedKeys[n] : n \in 1..5 } |->
        IF k = sources THEN StrVal(<< "a", "}" >>) ELSE StrVal(<< "a" >>)]

PartialProfile == [k \in { company_type } |-> StrVal(<< "a" >>)]

\* The texts a status-200 reply may carry, by name.
ReplyTexts ==
    [ example |-> ExamplePayload,
      full |-> Encode(FullProfile),
      partial |-> FenceJson \o NL \o Encode(PartialProfile) \o NL \o Fence,
      empty_object |-> << "{", "}" >>,
      prose |-> << "a" >> ]

\* What the endpoint may answer to one request.
Replies ==
    { [kind |-> "RequestException", status |-> 0, text |-> "prose"],
      [kind |-> "status", status |-> 500, text |-> "full"],
      [kind |-> "JSONDecodeError", status |-> 200, text |-> "prose"],
      [kind |-> "KeyError", status |-> 200, text |-> "prose"],
      [kind |-> "IndexError", status |-> 200, text |-> "prose"] }
        \cup [kind : {"text"}, status : {200}, text : DOMAIN ReplyTexts]

\* ExtractProfile of every reply text.
ReplyProfile == [n \in DOMAIN ReplyTexts |-> ExtractProfile(ReplyTexts[n])]

\* A variant: the status of the reply is not looked at.
call_pplx_api_any_status(reply) ==
    IF reply.kind = "RequestException" THEN [raised |-> FALSE, ret |-> None]
    ELSE IF reply.kind \in {"JSONDecodeError", "KeyError"}
    THEN [raised |-> FALSE, ret |-> None]
    ELSE IF reply.kind = "IndexError" THEN [raised |-> TRUE, ret |-> None]
    ELSE [raised |-> FALSE, ret |-> ReplyProfile[reply.text]]

\* call_pplx_api on one reply: the response returned, or the exception that
\* leaves it.
call_pplx_api(reply) ==
    IF reply.kind = "RequestException" THEN [raised |-> FALSE, ret |-> None]
    ELSE IF reply.status # 200 THEN [raised |-> FALSE, ret |-> None]
    ELSE IF reply.kind \in {"JSONDecodeError", "KeyError"}
    THEN [raised |-> FALSE, ret |-> None]
    ELSE IF reply.kind = "IndexError" THEN [raised |-> TRUE, ret |-> None]
    ELSE [raised |-> FALSE, ret |-> ReplyProfile[reply.text]]

\* ---------------------------------------------------- process_companies

StartRows == { 2, 3 }
SheetRows == 1..(Max(StartRows) + MaxRows)

\* A row of the range A..B as the sheet returns it.
RowValues ==
    { << >>, << "OnlyName" >>, << "Acme Inc", "acme.com" >>, << "Beta", "beta.io" >> }

Untouched == << >>

\* A variant: enumerate(companies, start=1).
RowOfFromOne(start, k) == k

\* enumerate(companies, start=start_row): the row of position k.
RowOf(start, k) == start + k - 1

\* A variant: only the empty row is skipped, and the last field is the domain.
ReadRowLastField(company) ==
    IF Len(company) < 1
    THEN [skip |-> TRUE, domain |-> "unbound"]
    ELSE [skip |-> FALSE, domain |-> company[Len(company)]]

\* Lines 174-178: the row is skipped when it has fewer than two fields, and
\* its second field is the domain otherwise (the range has two columns).
ReadRow(company) ==
    IF Len(company) < 2
    THEN [skip |-> TRUE, domain |-> "unbound"]
    ELSE [skip |-> FALSE, domain |-> company[2]]

\* A variant: the exception leaves the loop.
AbortOnException == "raised"

\* Where the loop goes after the except of line 189.
AfterException == "loop"

Event(kind, k) == << kind, k >>

Init ==
    /\ pc = "read"
    /\ start_row \in StartRows
    /\ end_row \in start_row..(start_row + MaxRows - 1)
    /\ companies = << >>
    /\ idx = 0
    /\ domain = "unbound"
    /\ response = None
    /\ sheet = [r \in SheetRows |-> Untouched]
    /\ issued = << >>
    /\ log = << >>
    /\ outcome = << >>
    /\ got = << >>
    /\ origin = [kind |-> "short", profile |-> EmptyDict, pre |-> << >>, suf |-> << >>]
    /\ stage = "idle"
    /\ content = << >>
    /\ result = None

\* Line 170: the rows of the range, without the empty rows at its end.
get_company_data ==
    /\ pc = "read"
    /\ \E n \in 0..(end_row - start_row + 1) :
         \E rows \in [1..n -> RowValues] :
           /\ (n > 0 => rows[n] # << >>)
           /\ companies' = rows
    /\ idx' = 1
    /\ pc' = "loop"
    /\ UNCHANGED << start_row, end_row, domain, response, sheet, issued, log, outcome, got >>
    /\ UNCHANGED extractVars

\* Line 170: the read raises, and nothing of process_companies catches it.
ReadFails ==
    /\ pc = "read"
    /\ pc' = "raised"
    /\ UNCHANGED << start_row, end_row, companies, idx, domain, response, sheet, issued,
                    log, outcome, got >>
    /\ UNCHANGED extractVars

\* Line 172: the list is exhausted.
LoopExit ==
    /\ pc = "loop"
    /\ idx > Len(companies)
    /\ pc' = "done"
    /\ UNCHANGED << start_row, end_row, companies, idx, domain, response, sheet, issued,
                    log, outcome, got >>
    /\ UNCHANGED extractVars

\* Lines 174-176: a row with fewer than two fields.
SkipRow ==
    /\ pc = "loop"
    /\ idx <= Len(companies)
    /\ ReadRow(companies[idx]).skip
    /\ log' = log \o << Event("visit", idx), Event("skip", idx) >>
    /\ outcome' = Append(outcome, "incomplete")
    /\ idx' = idx + 1
    /\ UNCHANGED << pc, start_row, end_row, companies, domain, response, sheet, issued, got >>
    /\ UNCHANGED extractVars

\* Lines 178-179.
BindDomain ==
    /\ pc = "loop"
    /\ idx <= Len(companies)
    /\ ~ReadRow(companies[idx]).skip
    /\ domain' = ReadRow(companies[idx]).domain
    /\ log' = Append(log, Event("visit", idx))
    /\ pc' = "call"
    /\ UNCHANGED << start_row, end_row, companies, idx, response, sheet, issued, outcome, got >>
    /\ UNCHANGED extractVars

\* Line 181, the call returns.
CallReturns ==
    /\ pc = "call"
    /\ \E reply \in Replies :
         /\ ~call_pplx_api(reply).raised
         /\ response' = call_pplx_api(reply).ret
         /\ outcome' = Append(outcome, reply.kind)
         /\ got' = Append(got, [pos |-> idx, domain |-> domain, reply |-> reply,
                                raised |-> FALSE, ret |-> call_pplx_api(reply).ret])
         /\ log' = Append(log, Event("request", idx))
         /\ pc' = IF Truthy(call_pplx_api(reply).ret) THEN "update" ELSE "sleep"
    /\ UNCHANGED << start_row, end_row, companies, idx, domain, sheet, issued >>
    /\ UNCHANGED extractVars

\* Line 181, the call raises; lines 189-191 catch it.
CallRaises ==
    /\ pc = "call"
    /\ \E reply \in Replies :
         /\ call_pplx_api(reply).raised
         /\ outcome' = Append(outcome, reply.kind)
         /\ got' = Append(got, [pos |-> idx, domain |-> domain, reply |-> reply,
                                raised |-> TRUE, ret |-> None])
    /\ log' = log \o << Event("request", idx), Event("caught", idx) >>
    /\ idx' = idx + 1
    /\ pc' = AfterException
    /\ UNCHANGED << start_row, end_row, companies, domain, response, sheet, issued >>
    /\ UNCHANGED extractVars

\* Line 183: update_sheet_with_response(i, response); the update of lines
\* 157-162 succeeds or raises (and lines 164-165 catch it).
update_sheet_with_response ==
    /\ pc = "update"
    /\ \E ok \in BOOLEAN :
         LET row == RowOf(start_row, idx)
             values == FiveValues(response.val)
         IN  IF Truthy(response)
             THEN /\ issued' = Append(issued, [pos |-> idx, row |-> row,
                                               values |-> values, ok |-> ok])
                  /\ sheet' = IF ok THEN [sheet EXCEPT ![row] = values] ELSE sheet
             ELSE UNCHANGED << issued, sheet >>
    /\ log' = Append(log, Event("update", idx))
    /\ pc' = "sleep"
    /\ UNCHANGED << start_row, end_row, companies, idx, domain, response, outcome, got >>
    /\ UNCHANGED extractVars

\* Line 187, and back to the head of the loop.
Sleep ==
    /\ pc = "sleep"
    /\ log' = Append(log, Event("sleep", idx))
    /\ idx' = idx + 1
    /\ pc' = "loop"
    /\ UNCHANGED << start_row, end_row, companies, domain, response, sheet, issued,
                    outcome, got >>
    /\ UNCHANGED extractVars

Next ==
    \/ get_company_data
    \/ ReadFails
    \/ LoopExit
    \/ SkipRow
    \/ BindDomain
    \/ CallReturns
    \/ CallRaises
    \/ update_sheet_with_response
    \/ Sleep

Spec == Init /\ [][Next]_vars

\* The program is sequential and every blocking call returns or raises (the
\* request has a timeout), so a step that can be taken is taken.
FairSpec == Spec /\ WF_vars(Next)

\* ------------------------------------------------- the extraction, by step

InitExtract ==
    /\ pc = "off"
    /\ start_row = 2
    /\ end_row = 2
    /\ companies = << >>
    /\ idx = 0
    /\ domain = "unbound"
    /\ response = None
    /\ sheet = [r \in SheetRows |-> Untouched]
    /\ issued = << >>
    /\ log = << >>
    /\ outcome = << >>
    /\ got = << >>
    /\ origin \in Origins
    /\ stage = "raw"
    /\ content = RawText(origin)
    /\ result = None

\* Line 102.
Strip ==
    /\ stage = "raw"
    /\ content' = StripFences(content)
    /\ stage' = "stripped"
    /\ UNCHANGED << origin, result >>
    /\ UNCHANGED driverVars

\* Lines 105-106.
Brace ==
    /\ stage = "stripped"
    /\ content' = KeepFromFirstBrace(content)
    /\ stage' = "braced"
    /\ UNCHANGED << origin, result >>
    /\ UNCHANGED driverVars

\* Lines 109-110.
Truncate ==
    /\ stage = "braced"
    /\ content' = TruncateAfterLastBrace(content)
    /\ stage' = "truncated"
    /\ UNCHANGED << origin, result >>
    /\ UNCHANGED driverVars

\* Lines 113-120.
Loads ==
    /\ stage = "truncated"
    /\ result' = LoadsOrNone(content)
    /\ stage' = "returned"
    /\ UNCHANGED << origin, content >>
    /\ UNCHANGED driverVars

NextExtract == Strip \/ Brace \/ Truncate \/ Loads

SpecExtract == InitExtract /\ [][NextExtract]_vars

\* ============================================================ properties

\* Positions of the log at which an event of this kind and position stands.
EventsOf(kind, k) == { n \in 1..Len(log) : log[n] = Event(kind, k) }
Happened(kind, k) == EventsOf(kind, k) # {}

\* The update requests issued for position k.
IssuedFor(k) == { n \in 1..Len(issued) : issued[n].pos = k }

\* The calls of call_pplx_api made for position k.
CallsFor(k) == { n \in 1..Len(got) : got[n].pos = k }

\* The positions whose processing is over.
Processed == 1..Len(outcome)

\* Position k ended in one of the six failure kinds: transport failure,
\* non-success status, response-shape failure, JSON-recovery failure,
\* incomplete row, runtime fault caught at the row boundary.
Failed(k) ==
    \/ outcome[k] \in { "RequestException", "status", "JSONDecodeError", "KeyError",
                        "incomplete", "IndexError" }
    \/ outcome[k] = "text" /\ \E n \in CallsFor(k) : got[n].ret.none

\* After position k the loop stands at k + 1, or has already moved on.
WentOn(k) ==
    /\ pc \in { "loop", "call", "update", "sleep", "done" }
    /\ idx > k \/ (idx = k /\ pc = "sleep")
    /\ (pc = "done" /\ k < Len(companies)) => Happened("visit", k + 1)

\* C1: a row that ends in any of the six failure kinds gets no update request
\* and its cells stay untouched, and the loop goes on to the following row;
\* in particular so for a reply of status 500.
C1_FailedRowUntouched ==
    \A k \in Processed :
        Failed(k) =>
            /\ IssuedFor(k) = {}
            /\ sheet[start_row + k - 1] = Untouched
            /\ WentOn(k)

\* A status-500 reply for one row, and the following row queried.
C1_Witness ==
    \E k \in Processed :
        /\ outcome[k] = "status"
        /\ \E n \in CallsFor(k) : got[n].reply.status = 500
        /\ Happened("request", k + 1)

\* C2: every update request targets the five cells C..G of the row the
\* position was read from, inside the requested range, with the five values
\* of the profile returned for the domain of column B of that row; a cell
\* range is either untouched or holds the five values of such a request.
C2_RowsAlign ==
    /\ \A n \in 1..Len(issued) :
         LET u == issued[n]
         IN  /\ u.pos \in 1..Len(companies)
             /\ u.row = start_row + u.pos - 1
             /\ u.row \in start_row..end_row
             /\ Len(u.values) = 5
             /\ \E m \in CallsFor(u.pos) :
                  /\ got[m].domain = companies[u.pos][2]
                  /\ ~got[m].raised /\ ~got[m].ret.none
                  /\ \A j \in 1..5 :
                       u.values[j] = Get(got[m].ret.val, RecognisedKeys[j])
    /\ \A r \in SheetRows :
         \/ sheet[r] = Untouched
         \/ \E n \in 1..Len(issued) :
              issued[n].row = r /\ issued[n].ok /\ sheet[r] = issued[n].values
    /\ \A k \in Processed :
         (\A n \in IssuedFor(k) : ~issued[n].ok) => sheet[start_row + k - 1] = Untouched

\* Two rows of different domains both written, in a range that starts at 3.
C2_Witness ==
    /\ start_row = 3
    /\ Len(companies) = 2
    /\ companies[1] # companies[2]
    /\ sheet[3] # Untouched
    /\ sheet[4] # Untouched
    /\ sheet[3] # sheet[4]

\* The text of the request was without an opening brace.
NoOpenBrace == ~Contains(RawText(origin), << "{" >>)

\* The profile with the fence markers removed from its values.
Unfenced(p) == [k \in DOMAIN p |-> StrVal(StripFences(p[k].v))]

\* C3 as stated: a text without an opening brace yields None.
C3_Original ==
    (stage = "returned" /\ NoOpenBrace) => result = None

\* C3, amended: for a text without an opening brace the brace is prepended
\* all the same; the result is None when the text has no closing brace
\* either, and it is the decoded mapping when the text is an encoded object
\* without its opening brace.
C3_BracePrepended ==
    NoOpenBrace =>
        /\ stage = "braced" => content = << "{" >> \o StripFences(RawText(origin))
        /\ stage = "returned" =>
             /\ ~Contains(RawText(origin), << "}" >>) => result = None
             /\ origin.kind = "headless" => result = Some(Unfenced(origin.profile))

\* An encoded object without its opening brace decoded to a mapping with a
\* key.
C3_Witness ==
    /\ stage = "returned"
    /\ NoOpenBrace
    /\ origin.kind = "headless"
    /\ ~result.none
    /\ DOMAIN result.val # {}

\* The text is an encoded object followed by one closing brace.
ExtraBrace ==
    origin.kind = "encoded" /\ origin.pre = << >> /\ origin.suf = << "}" >>

\* C4 as stated: the object followed by one closing brace is decoded.
C4_Original ==
    (stage = "returned" /\ ExtraBrace) =>
        result = LoadsOrNone(StripFences(Encode(origin.profile)))

\* C4, amended: truncating after the last closing brace keeps the extra
\* brace (nothing is removed), and the result is None.
C4_ExtraBraceKept ==
    ExtraBrace =>
        /\ stage \in { "truncated", "returned" } =>
             /\ content = StripFences(RawText(origin))
             /\ content[Len(content)] = "}"
             /\ content[Len(content) - 1] = "}"
        /\ stage = "returned" => result = None

\* An object with a key, followed by one closing brace, returned as None.
C4_Witness ==
    /\ stage = "returned"
    /\ ExtraBrace
    /\ DOMAIN origin.profile # {}
    /\ result = None

\* The text is an encoded profile and nothing else.
NoNoise ==
    origin.kind = "encoded" /\ origin.pre = << >> /\ origin.suf = << >>

\* C6 as stated: the encoded profile is returned as it was, whatever its
\* values hold.
C6_Original ==
    (stage = "returned" /\ NoNoise) => result = Some(origin.profile)

\* C6, amended: the encoded profile is returned as it was when none of its
\* values holds a fence marker (three backquotes); braces in the values do
\* not matter.
C6_RoundTrip ==
    ( /\ stage = "returned"
      /\ NoNoise
      /\ \A k \in DOMAIN origin.profile : ~Contains(origin.profile[k].v, Fence) )
        => result = Some(origin.profile)

\* A profile of two keys with both kinds of brace in its values, returned
\* as it was.
C6_Witness ==
    /\ stage = "returned"
    /\ NoNoise
    /\ Cardinality(DOMAIN origin.profile) = 2
    /\ \E k \in DOMAIN origin.profile : Contains(origin.profile[k].v, << "}" >>)
    /\ \E k \in DOMAIN origin.profile : Contains(origin.profile[k].v, << "{" >>)
    /\ result = Some(origin.profile)

\* The quoted value of a line "key": "value" of the example.
ExampleValue(line) ==
    LET q == { n \in 1..Len(line) : line[n] = "\"" }
        third == Min({ n \in q : Cardinality({ m \in q : m < n }) = 2 })
        fourth == Min({ n \in q : n > third })
    IN  SubSeq(line, third + 1, fourth - 1)

\* C5: the row of acme.com, answered with the example of the prompt, gets
\* an update request with the five values of the example.
C5_ExampleWritten ==
    \A n \in 1..Len(got) :
        ( /\ companies[got[n].pos] = << "Acme Inc", "acme.com" >>
          /\ got[n].reply = [kind |-> "text", status |-> 200, text |-> "example"]
          /\ idx > got[n].pos )
            => \E m \in IssuedFor(got[n].pos) :
                 issued[m].values =
                     << StrVal(ExampleValue(ExampleLine76)), StrVal(ExampleValue(ExampleLine77)),
                        StrVal(ExampleValue(ExampleLine78)), StrVal(ExampleValue(ExampleLine79)),
                        StrVal(ExampleValue(ExampleLine80)) >>

\* C7: a row with fewer than two fields is skipped: no request is sent and
\* no update is issued for it, its cells stay untouched, and the loop goes
\* on; a request is sent only for a row with at least two fields.
C7_IncompleteRowSkipped ==
    \A k \in 1..Len(companies) :
        /\ Happened("request", k) => Len(companies[k]) >= 2
        /\ CallsFor(k) # {} => Len(companies[k]) >= 2
        /\ (k \in Processed /\ Len(companies[k]) < 2) =>
             /\ outcome[k] = "incomplete"
             /\ IssuedFor(k) = {}
             /\ sheet[start_row + k - 1] = Untouched
             /\ WentOn(k)

\* The single-cell row skipped, and the row after it queried.
C7_Witness ==
    \E k \in Processed :
        /\ companies[k] = << "OnlyName" >>
        /\ outcome[k] = "incomplete"
        /\ Happened("request", k + 1)

\* The row of position k is past the point of line 183.
PastUpdate(k) == idx > k \/ (idx = k /\ pc = "sleep")

\* C8 as stated: every profile that is not None is written.
C8_Original ==
    \A n \in 1..Len(got) :
        (~got[n].raised /\ ~got[n].ret.none /\ PastUpdate(got[n].pos))
            => IssuedFor(got[n].pos) # {}

\* C8, amended: a returned mapping with at least one key gets one update
\* request for its row with five values, the value of each missing key
\* being the empty string; None and the empty mapping get none.
C8_NonEmptyProfileWritten ==
    \A n \in 1..Len(got) :
        LET k == got[n].pos
            d == got[n].ret.val
        IN  (~got[n].raised /\ PastUpdate(k)) =>
              IF ~got[n].ret.none /\ DOMAIN d # {}
              THEN /\ Cardinality(IssuedFor(k)) = 1
                   /\ \A m \in IssuedFor(k) :
                        /\ issued[m].row = start_row + k - 1
                        /\ Len(issued[m].values) = 5
                        /\ \A j \in 1..5 :
                             issued[m].values[j] =
                                 IF RecognisedKeys[j] \in DOMAIN d
                                 THEN d[RecognisedKeys[j]]
                                 ELSE StrVal(<< >>)
              ELSE IssuedFor(k) = {}

\* A profile with one key written with four empty strings, and the empty
\* mapping of another row not written.
C8_Witness ==
    /\ \E n \in 1..Len(got) :
         /\ got[n].reply.text = "partial" /\ got[n].reply.kind = "text"
         /\ \E m \in IssuedFor(got[n].pos) :
              /\ issued[m].values[1] = StrVal(<< >>)
              /\ issued[m].values[2] = StrVal(<< "a" >>)
              /\ sheet[issued[m].row] = issued[m].values
    /\ \E n \in 1..Len(got) :
         /\ got[n].reply.text = "empty_object" /\ got[n].reply.kind = "text"
         /\ ~got[n].ret.none
         /\ PastUpdate(got[n].pos)
         /\ IssuedFor(got[n].pos) = {}

\* The positions visited, in the order of the visits.
Visits == SelectSeq(log, LAMBDA e : e[1] = "visit")

\* C9 as stated: at completion the rows start_row..end_row have been
\* visited.
C9_Original ==
    pc = "done" =>
        { start_row + Visits[n][2] - 1 : n \in 1..Len(Visits) } = start_row..end_row

\* The visits are of the positions 1, 2, ... in this order, a position is
\* queried at most once and written at most once, and at completion every
\* returned row has been visited.
C9_InOrderOnce ==
    /\ \A n \in 1..Len(Visits) : Visits[n][2] = n
    /\ Len(Visits) <= Len(companies)
    /\ Len(companies) <= end_row - start_row + 1
    /\ \A k \in 1..Len(companies) :
         /\ Cardinality(EventsOf("request", k)) <= 1
         /\ Cardinality(EventsOf("update", k)) <= 1
         /\ Cardinality(CallsFor(k)) <= 1
         /\ Cardinality(IssuedFor(k)) <= 1
    /\ pc = "done" => Len(Visits) = Len(companies)

\* C9, amended: the loop visits the rows the read returned, start_row,
\* start_row + 1, ... (fewer than the range when the read returned fewer),
\* in increasing order and each once, with no second request or update for
\* a row, and once the read has returned it always reaches completion after
\* the last returned row, whatever the outcome of any row.
C9_VisitsReturnedRows ==
    /\ []C9_InOrderOnce
    /\ (pc = "loop") ~> (pc = "done")

\* A completed run of fewer rows than the range, one of them ended by an
\* exception caught at the row boundary.
C9_Witness ==
    /\ pc = "done"
    /\ Len(companies) >= 1
    /\ Len(companies) < end_row - start_row + 1
    /\ \E k \in Processed : Happened("caught", k)

\* C10: between two requests to the completion endpoint the sleep of line
\* 187 has taken place.
C10_SleepBetweenRequests ==
    \A a, b \in 1..Len(log) :
        (a < b /\ log[a][1] = "request" /\ log[b][1] = "request")
            => \E c \in a..b : log[c][1] = "sleep"

====
